---- MODULE Spec2Model ----
(***************************************************************************)
(* Model of online_store/products: the four Django models (Item, Discount, *)
(* Tax, Order) and the two checkout views buy_view and buy_order_view,     *)
(* which talk to the Stripe gateway.  Every request is a process whose     *)
(* program counter walks the view's statements.  A step ends wherever the  *)
(* view is about to read or write a row that another request may write     *)
(* (the Discount and Tax rows), so concurrent requests interleave between  *)
(* a view's load of a row and its save(); a gateway call, which touches no *)
(* row, belongs to the step of the load before it.                         *)
(***************************************************************************)
EXTENDS Integers, Sequences, FiniteSets, TLC

\* ------------------------------------------------------------------ bounds

\* Number of HTTP requests handled in one behaviour.
MaxRequests == 2

ReqIds == 1..MaxRequests

\* ------------------------------------------------------------ Python values

\* Python's None in a nullable column (null=True).
NoneVal == -1

\* Python truthiness of an optional integer / id: None and 0 are falsy.
Truthy(x) == x # NoneVal /\ x # 0

\* ------------------------------------------------------------ stored records

ItemIds == 1..2
DiscountIds == 1..3
TaxIds == 1..1
OrderIds == 1..6

\* An id that matches no stored row.
MissingId == 0

\* Item rows: price (PositiveIntegerField), currency ('USD' | 'EUR').
InitItems ==
    [i \in ItemIds |->
        IF i = 1 THEN [price |-> 10, currency |-> "USD"]
                 ELSE [price |-> 25, currency |-> "EUR"]]

\* Discount rows as the admin creates them: no Stripe coupon yet.
\* Discount 1 is amount-based; discounts 2 and 3 are percent-based, the
\* amount_off of 2 entered as 0 and that of 3 left empty (None).
InitDiscounts ==
    [d \in DiscountIds |->
        CASE d = 1 -> [amount_off |-> 5, percent_off |-> NoneVal, stripe_coupon_id |-> NoneVal]
          [] d = 2 -> [amount_off |-> 0, percent_off |-> 10, stripe_coupon_id |-> NoneVal]
          [] OTHER -> [amount_off |-> NoneVal, percent_off |-> 15, stripe_coupon_id |-> NoneVal]]

\* Tax rows as the admin creates them: no Stripe tax rate yet.
InitTaxes ==
    [t \in TaxIds |->
        [percentage |-> 20, inclusive |-> FALSE, stripe_tax_rate_id |-> NoneVal]]

\* Order rows: items (many-to-many, a set of Item ids), discount and tax
\* (nullable foreign keys), paid.  Orders 1 and 2 share a Discount and a Tax;
\* order 3 has no items; order 6 has neither discount nor tax.
InitOrders ==
    [o \in OrderIds |->
        CASE o = 1 -> [items |-> {1, 2}, discount |-> 1, tax |-> 1, paid |-> FALSE]
          [] o = 2 -> [items |-> {2}, discount |-> 1, tax |-> 1, paid |-> FALSE]
          [] o = 3 -> [items |-> {}, discount |-> 1, tax |-> NoneVal, paid |-> FALSE]
          [] o = 4 -> [items |-> {1}, discount |-> 2, tax |-> NoneVal, paid |-> FALSE]
          [] o = 5 -> [items |-> {2}, discount |-> 3, tax |-> NoneVal, paid |-> FALSE]
          [] OTHER -> [items |-> {1}, discount |-> NoneVal, tax |-> NoneVal, paid |-> FALSE]]

\* ------------------------------------------------------------------- state

VARIABLES
    items,      \* Item table
    discounts,  \* Discount table
    taxes,      \* Tax table
    orders,     \* Order table
    req         \* per request: position in the view (pc), its locals (order,
                \* discount, tax, line_items), its response, and a record of
                \* what it did: the gateway calls it made (calls), the rows it
                \* saved (saved), the remote ids it found when it loaded the
                \* Discount and the Tax (coupon_read, tax_rate_read)

vars == <<items, discounts, taxes, orders, req>>
db == <<items, discounts, taxes, orders>>

\* A foreign key that is NULL, or an instance not loaded.
NoInstance == [id |-> NoneVal]

NoResponse == [status |-> 0]

IdleRequest ==
    [pc |-> "idle", view |-> "", arg |-> MissingId, order |-> NoneVal,
     discount |-> NoInstance, tax |-> NoInstance, line_items |-> <<>>,
     calls |-> <<>>, saved |-> <<>>, response |-> NoResponse,
     coupon_read |-> NoneVal, tax_rate_read |-> NoneVal]

\* ----------------------------------------------------------------- gateway

\* Messages of the exceptions the gateway raises.
ExcMessages == {"card_declined", "rate_limit"}

\* What one gateway call can do: return an object, or raise.
StripeOutcomes ==
    {[ok |-> TRUE, message |-> ""]} \cup {[ok |-> FALSE, message |-> m] : m \in ExcMessages}

\* The id of the object a gateway call of request r returns.  Ids are opaque
\* and unique per kind of object; a request makes at most one call per kind,
\* so the request's number names the object.
FreshId(r) == r

\* --------------------------------------------------------------- responses

\* Fault: the lookup's Http404 is lost and the view fails with a server error.
NotFound_AsServerError == [status |-> 500, body |-> [kind |-> "uncaught"]]

\* get_object_or_404 found no row.
NotFound == [status |-> 404, body |-> [kind |-> "not_found"]]

\* Fault: the exception is turned into a client error.
ServerError_AsBadRequest == [status |-> 400, body |-> [kind |-> "text", text |-> "Stripe error: "]]

\* An exception nobody catches leaves the view.
ServerError == [status |-> 500, body |-> [kind |-> "uncaught"]]

\* Fault: the exception's message is left out of the body.
BadRequest_NoMessage(message) ==
    [status |-> 400, body |-> [kind |-> "text", text |-> "Stripe error: "]]

\* HttpResponseBadRequest(f"Stripe error: {str(e)}")
BadRequest(message) ==
    [status |-> 400, body |-> [kind |-> "text", text |-> "Stripe error: " \o message]]

\* JsonResponse({"session_id": session.id})
SessionJson(session_id) ==
    [status |-> 200, body |-> [kind |-> "json", session_id |-> session_id]]

\* -------------------------------------------------- the views' computations

\* Fault: the price is submitted as it is stored, not in hundredths.
UnitAmount_Unscaled(price) == price

\* int(item.price * 100)
UnitAmount(price) == price * 100

\* The line item of buy_view.
ItemLineItem(item) ==
    [currency |-> item.currency, unit_amount |-> UnitAmount(item.price), quantity |-> 1]

\* Fault: the tax rate is never attached.
OrderLineItem_NoTax(item, tax) ==
    [currency |-> item.currency, unit_amount |-> UnitAmount(item.price), quantity |-> 1]

\* One item_data of buy_order_view; tax is the order's cached Tax instance.
OrderLineItem(item, tax) ==
    LET item_data ==
            [currency |-> item.currency, unit_amount |-> UnitAmount(item.price),
             quantity |-> 1]
    IN  IF tax.id # NoneVal /\ Truthy(tax.stripe_tax_rate_id)
        THEN [tax_rates |-> <<tax.stripe_tax_rate_id>>] @@ item_data
        ELSE item_data

\* Fault: the stored coupon id is not looked at.
DiscountNeedsCoupon_Always(discount) == TRUE

\* if not discount.stripe_coupon_id
DiscountNeedsCoupon(discount) == ~Truthy(discount.stripe_coupon_id)

\* Fault: the stored tax-rate id is not looked at.
TaxNeedsRate_Always(tax) == TRUE

\* if not tax.stripe_tax_rate_id
TaxNeedsRate(tax) == ~Truthy(tax.stripe_tax_rate_id)

\* Fault: "is not None" where the code tests truthiness.
IsAmountBased_NotNone(discount) == discount.amount_off # NoneVal

\* if discount.amount_off
IsAmountBased(discount) == Truthy(discount.amount_off)

\* order.items.first(): unordered querysets are ordered by primary key;
\* None for an order without items.
ItemsFirst(item_ids) ==
    IF item_ids = {} THEN NoneVal
    ELSE CHOOSE i \in item_ids : \A j \in item_ids : i <= j

\* order.items.all(): the rows in an order the database chooses.
ItemsAll(item_ids) ==
    {s \in [1..Cardinality(item_ids) -> item_ids] :
        \A i, j \in DOMAIN s : i # j => s[i] # s[j]}

\* The keyword arguments of stripe.Coupon.create.
CouponArgs(discount, first_item) ==
    IF IsAmountBased(discount)
    THEN [op |-> "Coupon.create", duration |-> "once",
          amount_off |-> discount.amount_off, currency |-> first_item.currency]
    ELSE [op |-> "Coupon.create", duration |-> "once",
          percent_off |-> discount.percent_off]

\* The keyword arguments of stripe.TaxRate.create.
TaxRateArgs(tax) ==
    [op |-> "TaxRate.create", percentage |-> tax.percentage, inclusive |-> tax.inclusive]

\* The keyword arguments of stripe.checkout.Session.create.
SessionArgs(line_items) ==
    [op |-> "checkout.Session.create", payment_method_types |-> <<"card">>,
     line_items |-> line_items, mode |-> "payment"]

\* A gateway call as the request's record keeps it: the arguments, whether it
\* returned, the id of the object returned or the message of the exception.
Call(args, outcome, r) ==
    [ok |-> outcome.ok, id |-> IF outcome.ok THEN FreshId(r) ELSE NoneVal,
     message |-> outcome.message] @@ args

\* order.discount / order.tax: the row behind a foreign key, as an instance.
Load(table, id) ==
    IF id = NoneVal THEN NoInstance ELSE [id |-> id] @@ table[id]

\* Fault: a save that writes only while the row's remote id is still unset,
\* so the first save wins.
Save_KeepExisting(table, instance) ==
    IF \E f \in DOMAIN table[instance.id] \cap {"stripe_coupon_id", "stripe_tax_rate_id"} :
          table[instance.id][f] # NoneVal
    THEN table
    ELSE [table EXCEPT ![instance.id] = [f \in DOMAIN table[instance.id] |-> instance[f]]]

\* instance.save(): the instance's fields overwrite the row.
Save(table, instance) ==
    [table EXCEPT ![instance.id] = [f \in DOMAIN table[instance.id] |-> instance[f]]]

\* -------------------------------------------------------------------- Init

Init ==
    /\ items = InitItems
    /\ discounts = InitDiscounts
    /\ taxes = InitTaxes
    /\ orders = InitOrders
    /\ req = [r \in ReqIds |-> IdleRequest]

\* ----------------------------------------------------------------- actions

InFlight(r) == req[r].pc \notin {"idle", "done"}

\* The request's locals after the view returned (or raised) with `response`.
Finished(rq, response) == [rq EXCEPT !.pc = "done", !.response = response]

\* Requests are numbered in the order they arrive.
Arrives(r) ==
    /\ req[r].pc = "idle"
    /\ \A q \in ReqIds : q < r => req[q].pc # "idle"

\* GET /buy/<item_id>/ : the whole of buy_view.  The view reads one Item row,
\* which no view writes, and nothing else that is shared, so it is one step:
\* item = get_object_or_404(Item, id=item_id), then
\* try: session = stripe.checkout.Session.create(...) except ...
BuyView(r) ==
    /\ Arrives(r)
    /\ \E item_id \in ItemIds \cup {MissingId} :
          LET rq == [req[r] EXCEPT !.view = "buy_view", !.arg = item_id]
          IN  IF item_id \notin DOMAIN items
              THEN req' = [req EXCEPT ![r] = Finished(rq, NotFound)]
              ELSE \E outcome \in StripeOutcomes :
                     LET call == Call(SessionArgs(<<ItemLineItem(items[item_id])>>),
                                      outcome, r)
                         called == [rq EXCEPT !.calls = Append(@, call)]
                     IN  req' = [req EXCEPT ![r] =
                                   IF outcome.ok THEN Finished(called, SessionJson(call.id))
                                   ELSE Finished(called, BadRequest(outcome.message))]
    /\ UNCHANGED db

\* GET /buy_order/<order_id>/ : order = get_object_or_404(Order, id=order_id)
GetOrder(r) ==
    /\ Arrives(r)
    /\ \E order_id \in OrderIds \cup {MissingId} :
          LET rq == [req[r] EXCEPT !.view = "buy_order_view", !.arg = order_id]
          IN  req' = [req EXCEPT ![r] =
                        IF order_id \in DOMAIN orders
                        THEN [rq EXCEPT !.pc = "check_discount", !.order = order_id]
                        ELSE Finished(rq, NotFound)]
    /\ UNCHANGED db

\* The request's locals after stripe.Coupon.create(...), called for the
\* Discount instance `discount` just loaded, did `outcome`:
\* discount.stripe_coupon_id = coupon_id['id'] if it returned; the exception
\* is not caught if it raised.
AfterCouponCreate(rq, r, discount, first_item, outcome) ==
    LET call == Call(CouponArgs(discount, first_item), outcome, r)
        called == [rq EXCEPT !.calls = Append(@, call)]
    IN  IF outcome.ok
        THEN [called EXCEPT !.discount.stripe_coupon_id = call.id, !.pc = "save_discount"]
        ELSE Finished(called, ServerError)

\* if order.discount: discount = order.discount
\*     if not discount.stripe_coupon_id: coupon_id = stripe.Coupon.create(...)
\*         discount.stripe_coupon_id = coupon_id['id']
\* else: discount = None
\* One read of the Discount row, then the gateway call, which touches no row:
\* other requests can act between this step and discount.save().
\* order.items.first() is None for an order without items, and .currency then
\* raises before the call is made.
CheckDiscount(r) ==
    /\ req[r].pc = "check_discount"
    /\ LET order == orders[req[r].order]
           discount == Load(discounts, order.discount)
           first == ItemsFirst(order.items)
           rq == [req[r] EXCEPT !.discount = discount,
                                !.coupon_read = IF discount.id = NoneVal THEN NoneVal
                                                ELSE discount.stripe_coupon_id]
       IN  IF discount.id = NoneVal \/ ~DiscountNeedsCoupon(discount)
           THEN req' = [req EXCEPT ![r] = [rq EXCEPT !.pc = "check_tax"]]
           ELSE IF IsAmountBased(discount) /\ first = NoneVal
           THEN req' = [req EXCEPT ![r] = Finished(rq, ServerError)]
           ELSE \E outcome \in StripeOutcomes :
                  LET first_item == IF first = NoneVal THEN NoInstance ELSE items[first]
                  IN  req' = [req EXCEPT ![r] =
                                AfterCouponCreate(rq, r, discount, first_item, outcome)]
    /\ UNCHANGED db

\* discount.save()
SaveDiscount(r) ==
    /\ req[r].pc = "save_discount"
    /\ discounts' = Save(discounts, req[r].discount)
    /\ req' = [req EXCEPT ![r] =
                 [@ EXCEPT !.pc = "check_tax",
                           !.saved = Append(@, <<"Discount", req[r].discount.id>>)]]
    /\ UNCHANGED <<items, taxes, orders>>

\* The request's locals after stripe.TaxRate.create(...), called for the Tax
\* instance `tax` just loaded, did `outcome`:
\* tax.stripe_tax_rate_id = tax_id['id'] if it returned; the exception is not
\* caught if it raised.
AfterTaxRateCreate(rq, r, tax, outcome) ==
    LET call == Call(TaxRateArgs(tax), outcome, r)
        called == [rq EXCEPT !.calls = Append(@, call)]
    IN  IF outcome.ok
        THEN [called EXCEPT !.tax.stripe_tax_rate_id = call.id, !.pc = "save_tax"]
        ELSE Finished(called, ServerError)

\* if order.tax: tax = order.tax
\*     if not tax.stripe_tax_rate_id: tax_id = stripe.TaxRate.create(...)
\*         tax.stripe_tax_rate_id = tax_id['id']
\* else: tax = None
\* One read of the Tax row, then the gateway call; tax.save() is a later step.
CheckTax(r) ==
    /\ req[r].pc = "check_tax"
    /\ LET tax == Load(taxes, orders[req[r].order].tax)
           rq == [req[r] EXCEPT !.tax = tax,
                                !.tax_rate_read = IF tax.id = NoneVal THEN NoneVal
                                                  ELSE tax.stripe_tax_rate_id]
       IN  IF tax.id = NoneVal \/ ~TaxNeedsRate(tax)
           THEN req' = [req EXCEPT ![r] = [rq EXCEPT !.pc = "order_session"]]
           ELSE \E outcome \in StripeOutcomes :
                  req' = [req EXCEPT ![r] = AfterTaxRateCreate(rq, r, tax, outcome)]
    /\ UNCHANGED db

\* tax.save()
SaveTax(r) ==
    /\ req[r].pc = "save_tax"
    /\ taxes' = Save(taxes, req[r].tax)
    /\ req' = [req EXCEPT ![r] =
                 [@ EXCEPT !.pc = "order_session",
                           !.saved = Append(@, <<"Tax", req[r].tax.id>>)]]
    /\ UNCHANGED <<items, discounts, orders>>

\* line_items = []; for item in order.items.all(): ... line_items.append(item_data)
\* with order.tax the instance CheckTax cached on the order.
OrderLineItems(all, tax) ==
    [i \in DOMAIN all |-> OrderLineItem(items[all[i]], tax)]

\* The line items are built and, in the same statement sequence (no other
\* shared row is read or written in between), submitted:
\* try: session = stripe.checkout.Session.create(...) except ...
OrderSession(r) ==
    /\ req[r].pc = "order_session"
    /\ \E all \in ItemsAll(orders[req[r].order].items) :
       \E outcome \in StripeOutcomes :
          LET line_items == OrderLineItems(all, req[r].tax)
              call == Call(SessionArgs(line_items), outcome, r)
              rq == [req[r] EXCEPT !.calls = Append(@, call), !.line_items = line_items]
          IN  req' = [req EXCEPT ![r] =
                        IF outcome.ok THEN Finished(rq, SessionJson(call.id))
                        ELSE Finished(rq, BadRequest(outcome.message))]
    /\ UNCHANGED db

\* A statement of buy_order_view after the order is loaded.
Continue(r) ==
    \/ CheckDiscount(r)
    \/ SaveDiscount(r)
    \/ CheckTax(r)
    \/ SaveTax(r)
    \/ OrderSession(r)

\* Requests are served concurrently: no lock, no transaction around a view.
Next == \E r \in ReqIds : BuyView(r) \/ GetOrder(r) \/ Continue(r)

Spec == Init /\ [][Next]_vars

\* Requests served one after the other: a request arrives only when no other
\* is being handled.
NoneInFlight == \A q \in ReqIds : ~InFlight(q)

SeqNext ==
    \E r \in ReqIds :
        \/ NoneInFlight /\ BuyView(r)
        \/ NoneInFlight /\ GetOrder(r)
        \/ Continue(r)

SeqSpec == Init /\ [][SeqNext]_vars

\* ------------------------------------------------- vocabulary of the claims

Done(r) == req[r].pc = "done"

\* The positions in request r's record of its calls of gateway operation op.
CallsOf(r, op) == {i \in DOMAIN req[r].calls : req[r].calls[i].op = op}

IsBuy(r) == req[r].view = "buy_view"
IsBuyOrder(r) == req[r].view = "buy_order_view"

\* Request r asked for an id no row has.
AsksMissing(r) ==
    \/ IsBuy(r) /\ req[r].arg \notin DOMAIN items
    \/ IsBuyOrder(r) /\ req[r].arg \notin DOMAIN orders

\* ---------------------------------------------------------------------- C3
\* C3: in buy_view and in buy_order_view, a create-checkout-session call that
\* raises ends the request with HTTP 400 whose body is "Stripe error: "
\* followed by the exception's message, and the request made that call once
\* (no retry); a call that returns ends it with JSON {"session_id": <the id
\* the gateway returned>}.
C3_SessionOutcome ==
    \A r \in ReqIds :
        LET sessions == CallsOf(r, "checkout.Session.create")
        IN  sessions # {} =>
              /\ Cardinality(sessions) = 1
              /\ Done(r)
              /\ \A i \in sessions :
                    LET call == req[r].calls[i]
                    IN  /\ i = Len(req[r].calls)
                        /\ ~call.ok =>
                              /\ req[r].response.status = 400
                              /\ req[r].response.body =
                                    [kind |-> "text",
                                     text |-> "Stripe error: " \o call.message]
                        /\ call.ok =>
                              /\ req[r].response.status = 200
                              /\ req[r].response.body =
                                    [kind |-> "json", session_id |-> call.id]

\* Both views have answered a raising session call, with different messages.
C3_Witness ==
    \E r, q \in ReqIds :
        /\ IsBuy(r) /\ IsBuyOrder(q)
        /\ req[r].response.status = 400 /\ req[q].response.status = 400
        /\ req[r].response.body.text = "Stripe error: card_declined"
        /\ req[q].response.body.text = "Stripe error: rate_limit"

\* ---------------------------------------------------------------------- C4
\* C4: a checkout of an item id (buy_view) or an order id (buy_order_view)
\* that no row has ends with 404, makes no gateway call, and no step of it
\* changes an Item, Discount, Tax or Order row.
C4_NotFound ==
    /\ [](\A r \in ReqIds :
            (AsksMissing(r) /\ req[r].pc # "idle") =>
                /\ Done(r)
                /\ req[r].response.status = 404
                /\ req[r].calls = <<>>
                /\ req[r].saved = <<>>)
    /\ [][\A r \in ReqIds : (AsksMissing(r)' /\ req'[r] # req[r]) => db' = db]_vars

C4_Witness ==
    \E r, q \in ReqIds :
        /\ IsBuy(r) /\ IsBuyOrder(q)
        /\ AsksMissing(r) /\ AsksMissing(q)
        /\ req[r].response.status = 404 /\ req[q].response.status = 404

\* ---------------------------------------------------------------------- C5
\* C5: for every stored Item with price P and currency C, buy_view makes one
\* session-create call, in payment mode, with exactly one line item: quantity
\* 1, unit amount P * 100, currency C.
C5_SingleItemLine ==
    \A r \in ReqIds :
        (IsBuy(r) /\ Done(r) /\ ~AsksMissing(r)) =>
            LET item == items[req[r].arg]
            IN  /\ Len(req[r].calls) = 1
                /\ req[r].calls[1].op = "checkout.Session.create"
                /\ req[r].calls[1].mode = "payment"
                /\ Len(req[r].calls[1].line_items) = 1
                /\ req[r].calls[1].line_items[1].quantity = 1
                /\ req[r].calls[1].line_items[1].unit_amount = item.price * 100
                /\ req[r].calls[1].line_items[1].currency = item.currency

\* The spec's scenario: price 10, USD; the gateway receives 1000, USD, 1.
C5_Witness ==
    \E r \in ReqIds :
        /\ IsBuy(r) /\ Done(r) /\ req[r].arg = 1
        /\ req[r].response.status = 200
        /\ req[r].calls[1].line_items =
              <<[currency |-> "USD", unit_amount |-> 1000, quantity |-> 1]>>

\* ---------------------------------------------------------------------- C6
\* C6: the line items an order checkout submits are the order's items mapped
\* one by one: as many line items as the order has items (none for an empty
\* order), each with quantity 1, unit amount price * 100 and the item's
\* currency; if the order has a tax every line item carries one tax rate, the
\* Tax's remote id (the one the request found on the Tax or created for it),
\* and if the order has no tax no line item carries a tax rate.
C6_OrderLineItems ==
    \A r \in ReqIds :
        \A i \in CallsOf(r, "checkout.Session.create") :
            IsBuyOrder(r) =>
                LET order == orders[req[r].order]
                    li == req[r].calls[i].line_items
                    rates == CallsOf(r, "TaxRate.create")
                IN  /\ Len(li) = Cardinality(order.items)
                    /\ \A it \in order.items :
                          Cardinality({k \in DOMAIN li :
                                          /\ li[k].currency = items[it].currency
                                          /\ li[k].unit_amount = items[it].price * 100}) = 1
                    /\ \A k \in DOMAIN li : li[k].quantity = 1
                    /\ order.tax = NoneVal =>
                          \A k \in DOMAIN li : "tax_rates" \notin DOMAIN li[k]
                    /\ order.tax # NoneVal =>
                          \A k \in DOMAIN li :
                              /\ "tax_rates" \in DOMAIN li[k]
                              /\ Len(li[k].tax_rates) = 1
                              /\ Truthy(li[k].tax_rates[1])
                              /\ IF rates = {}
                                 THEN li[k].tax_rates[1] = req[r].tax_rate_read
                                 ELSE \A c \in rates : li[k].tax_rates[1] = req[r].calls[c].id

\* An order of two items with a tax and an empty order have both been
\* submitted.
C6_Witness ==
    \E r, q \in ReqIds :
        /\ req[r].order = 1 /\ req[r].response.status = 200
        /\ Len(req[r].line_items) = 2
        /\ \A k \in 1..2 : req[r].line_items[k].tax_rates = <<FreshId(r)>>
        /\ req[q].order = 3 /\ req[q].response.status = 200
        /\ CallsOf(q, "checkout.Session.create") = {1}
        /\ req[q].calls[1].line_items = <<>>

\* ---------------------------------------------------------------------- C7

\* Request r loaded a Discount that had no remote coupon id.
FoundNoCoupon(r) == req[r].discount.id # NoneVal /\ ~Truthy(req[r].coupon_read)

\* C7 as amended: an order checkout that finds its Discount without a remote
\* coupon id makes no gateway call before the create-coupon call, and:
\*  - if amount_off is non-zero and the order has no items, it makes no
\*    gateway call at all and fails with a server error;
\*  - otherwise it makes exactly one create-coupon call, its first call:
\*    amount-based (amount_off and the currency of the order's first item) if
\*    amount_off is set and non-zero, percent-based with percent_off if
\*    amount_off is unset or 0;
\*  - if that call returns, the id is saved on the Discount before any
\*    session is requested, and exactly one session-create call follows
\*    unless tax-rate creation raises; if it raises, the request ends with a
\*    server error, nothing saved and no session requested.
C7_CouponCreation ==
    \A r \in ReqIds :
        FoundNoCoupon(r) =>
            LET row == discounts[req[r].discount.id]
                order == orders[req[r].order]
                rq == req[r]
                coupons == CallsOf(r, "Coupon.create")
                sessions == CallsOf(r, "checkout.Session.create")
                rates == CallsOf(r, "TaxRate.create")
            IN  IF Truthy(row.amount_off) /\ order.items = {}
                THEN rq.calls = <<>> /\ rq.saved = <<>> /\ rq.response.status = 500
                ELSE
                  /\ coupons = {1}
                  /\ rq.calls[1].duration = "once"
                  /\ (row.amount_off # NoneVal /\ row.amount_off # 0) =>
                        /\ DOMAIN rq.calls[1] \cap {"amount_off", "currency", "percent_off"}
                              = {"amount_off", "currency"}
                        /\ rq.calls[1].amount_off = row.amount_off
                        /\ \E first \in order.items :
                              /\ \A it \in order.items : first <= it
                              /\ rq.calls[1].currency = items[first].currency
                  /\ (row.amount_off = NoneVal \/ row.amount_off = 0) =>
                        /\ DOMAIN rq.calls[1] \cap {"amount_off", "currency", "percent_off"}
                              = {"percent_off"}
                        /\ rq.calls[1].percent_off = row.percent_off
                  /\ ~rq.calls[1].ok =>
                        /\ rq.calls = <<rq.calls[1]>> /\ rq.saved = <<>>
                        /\ Done(r) /\ rq.response.status = 500
                  /\ rq.calls[1].ok =>
                        /\ rq.discount.stripe_coupon_id = rq.calls[1].id
                        /\ IF rq.pc = "save_discount"
                           THEN rq.calls = <<rq.calls[1]>> /\ rq.saved = <<>>
                           ELSE rq.saved # <<>> /\ rq.saved[1] = <<"Discount", rq.discount.id>>
                        /\ Done(r) =>
                              \/ Cardinality(sessions) = 1
                              \/ /\ sessions = {}
                                 /\ \E c \in rates : ~rq.calls[c].ok
                                 /\ rq.response.status = 500

\* The spec's scenario (a percent-based Discount without a remote id): one
\* create-coupon call with percent_off = 10, then one session-create call;
\* and an amount-based one with the first item's currency.
C7_Witness ==
    \E r, q \in ReqIds :
        /\ FoundNoCoupon(r) /\ req[r].response.status = 200
        /\ discounts[req[r].discount.id].amount_off = 0
        /\ req[r].calls[1].op = "Coupon.create" /\ req[r].calls[1].percent_off = 10
        /\ req[r].calls[2].op = "checkout.Session.create"
        /\ Len(req[r].calls) = 2
        /\ discounts[req[r].discount.id].stripe_coupon_id = req[r].calls[1].id
        /\ FoundNoCoupon(q) /\ req[q].order = 1 /\ Done(q)
        /\ req[q].calls[1].amount_off = 5 /\ req[q].calls[1].currency = "USD"

\* C7 as the claim states it: every order checkout that finds its Discount
\* without a remote coupon id makes exactly one create-coupon call,
\* amount-based if amount_off is set (not None) and percent-based otherwise,
\* saves the id, and then makes exactly one session-create call.
C7_Original ==
    \A r \in ReqIds :
        (FoundNoCoupon(r) /\ Done(r)) =>
            LET row == discounts[req[r].discount.id]
                rq == req[r]
            IN  /\ CallsOf(r, "Coupon.create") = {1}
                /\ IF row.amount_off # NoneVal
                   THEN "amount_off" \in DOMAIN rq.calls[1]
                   ELSE "percent_off" \in DOMAIN rq.calls[1]
                /\ rq.saved # <<>> /\ rq.saved[1] = <<"Discount", rq.discount.id>>
                /\ Cardinality(CallsOf(r, "checkout.Session.create")) = 1
                /\ \A i \in CallsOf(r, "checkout.Session.create") : i > 1

\* ---------------------------------------------------------------------- C8
\* C8: when the create-coupon call of an order checkout raises, the request
\* ends with the uncaught-exception (server error) response, not HTTP 400;
\* the raising call is the only gateway call of the request (no
\* create-tax-rate, no session-create); the request saves no row, and the
\* step that raises leaves every Discount and Tax row as it was.
C8_CouponFailure ==
    /\ [](\A r \in ReqIds :
            \A i \in CallsOf(r, "Coupon.create") :
                ~req[r].calls[i].ok =>
                    /\ Done(r)
                    /\ req[r].response.status = 500
                    /\ req[r].response.body.kind = "uncaught"
                    /\ Len(req[r].calls) = 1
                    /\ req[r].saved = <<>>)
    /\ [][\A r \in ReqIds :
            (req[r].pc = "check_discount" /\ req'[r].pc = "done") =>
                discounts' = discounts /\ taxes' = taxes]_vars

\* The coupon call of a checkout of an order with a tax has raised.
C8_Witness ==
    \E r \in ReqIds :
        /\ Done(r) /\ req[r].order = 1
        /\ Len(req[r].calls) = 1
        /\ req[r].calls[1].op = "Coupon.create" /\ ~req[r].calls[1].ok
        /\ req[r].response.status = 500
        /\ taxes[1].stripe_tax_rate_id = NoneVal
        /\ discounts[1].stripe_coupon_id = NoneVal

\* ------------------------------------------------ coupons and rates created

\* The Discount / Tax of the order request r checks out (None before the
\* order is loaded).
DiscountOf(r) == IF req[r].order = NoneVal THEN NoneVal ELSE orders[req[r].order].discount
TaxOf(r) == IF req[r].order = NoneVal THEN NoneVal ELSE orders[req[r].order].tax

\* The create-coupon calls made for Discount d, as <<request, position>>,
\* and those of them that returned a coupon.
CouponCalls(d) ==
    UNION {{<<r, i>> : i \in CallsOf(r, "Coupon.create")} :
              r \in {q \in ReqIds : DiscountOf(q) = d}}
CouponsCreated(d) == {c \in CouponCalls(d) : req[c[1]].calls[c[2]].ok}

\* The same for the create-tax-rate calls made for Tax t.
TaxRateCalls(t) ==
    UNION {{<<r, i>> : i \in CallsOf(r, "TaxRate.create")} :
              r \in {q \in ReqIds : TaxOf(q) = t}}
TaxRatesCreated(t) == {c \in TaxRateCalls(t) : req[c[1]].calls[c[2]].ok}

\* ---------------------------------------------------------------------- C1
\* Once a Discount's remote coupon id is set, no step of a sequential order
\* checkout changes it or makes a create-coupon call for that Discount.
C1_Reuse ==
    [][\A d \in DiscountIds :
          Truthy(discounts[d].stripe_coupon_id) =>
              /\ discounts'[d].stripe_coupon_id = discounts[d].stripe_coupon_id
              /\ CouponCalls(d)' = CouponCalls(d)]_vars

\* C1 as amended: C1_Reuse, and across sequential order checkouts at most one
\* create-coupon call for a Discount returns a coupon and no create-coupon
\* call for it is made by a later checkout; so two sequential checkouts of
\* an order make exactly one create-coupon call in total when the first
\* checkout's call returns (when it raises, the second checkout calls again).
C1_SequentialIdempotence ==
    /\ C1_Reuse
    /\ [](\A d \in DiscountIds :
            /\ Cardinality(CouponsCreated(d)) <= 1
            /\ \A c \in CouponsCreated(d) : \A b \in CouponCalls(d) : b[1] <= c[1])
    /\ [](\A r, q \in ReqIds :
            (/\ r < q /\ Done(r) /\ Done(q)
             /\ IsBuyOrder(r) /\ IsBuyOrder(q)
             /\ req[r].order # NoneVal /\ req[r].order = req[q].order
             /\ \E i \in CallsOf(r, "Coupon.create") : req[r].calls[i].ok) =>
                Cardinality(CallsOf(r, "Coupon.create"))
                  + Cardinality(CallsOf(q, "Coupon.create")) = 1)

\* Two sequential checkouts of one order: the first created the coupon, the
\* second found it and made no create-coupon call.
C1_Witness ==
    \E r, q \in ReqIds :
        /\ r < q /\ Done(r) /\ Done(q)
        /\ req[r].order = 1 /\ req[q].order = 1
        /\ FoundNoCoupon(r) /\ CallsOf(r, "Coupon.create") = {1} /\ req[r].calls[1].ok
        /\ req[q].coupon_read = req[r].calls[1].id
        /\ CallsOf(q, "Coupon.create") = {}
        /\ discounts[1].stripe_coupon_id = req[r].calls[1].id

\* C1 as the claim states it: C1_Reuse, and two sequential checkouts of an
\* order whose Discount had no remote id when the first began make exactly
\* one create-coupon call in total.
C1_Original ==
    /\ C1_Reuse
    /\ [](\A r, q \in ReqIds :
            (/\ r < q /\ Done(r) /\ Done(q)
             /\ IsBuyOrder(r) /\ IsBuyOrder(q)
             /\ req[r].order # NoneVal /\ req[r].order = req[q].order
             /\ FoundNoCoupon(r)) =>
                Cardinality(CallsOf(r, "Coupon.create"))
                  + Cardinality(CallsOf(q, "Coupon.create")) = 1)

\* ---------------------------------------------------------------------- C2
\* C2: once a Tax's remote tax-rate id is set, no step of a sequential order
\* checkout changes it or makes a create-tax-rate call for that Tax; also
\* when the checkout that created the tax rate ended with HTTP 400 (session
\* creation raised): the id stays on the Tax row and a later checkout of an
\* order with that Tax finds it and makes no create-tax-rate call.
C2_TaxReuse ==
    /\ [][\A t \in TaxIds :
            Truthy(taxes[t].stripe_tax_rate_id) =>
                /\ taxes'[t].stripe_tax_rate_id = taxes[t].stripe_tax_rate_id
                /\ TaxRateCalls(t)' = TaxRateCalls(t)]_vars
    /\ [](\A r \in ReqIds :
            \A i \in CallsOf(r, "TaxRate.create") :
                (Done(r) /\ req[r].calls[i].ok /\ req[r].response.status = 400) =>
                    /\ taxes[TaxOf(r)].stripe_tax_rate_id = req[r].calls[i].id
                    /\ \A q \in ReqIds :
                          (r < q /\ TaxOf(q) = TaxOf(r)
                           /\ req[q].pc \notin {"check_discount", "save_discount", "check_tax"}
                           /\ req[q].tax.id # NoneVal) =>
                              /\ CallsOf(q, "TaxRate.create") = {}
                              /\ req[q].tax_rate_read = req[r].calls[i].id)

\* The checkout that created the tax rate ended with HTTP 400; the next
\* checkout of another order with the same Tax reused the id.
C2_Witness ==
    \E r, q \in ReqIds :
        /\ r < q /\ Done(r) /\ Done(q)
        /\ req[r].order = 1 /\ req[q].order = 2
        /\ req[r].response.status = 400
        /\ \E i \in CallsOf(r, "TaxRate.create") :
              /\ req[r].calls[i].ok
              /\ taxes[1].stripe_tax_rate_id = req[r].calls[i].id
              /\ req[q].line_items # <<>>
              /\ req[q].line_items[1].tax_rates = <<req[r].calls[i].id>>
        /\ CallsOf(q, "TaxRate.create") = {}
        /\ req[q].response.status = 200

\* ---------------------------------------------------------------------- C9
\* C9: under any interleaving of order checkouts a Discount's remote coupon
\* id, once set, never changes, and at most one remote coupon is ever created
\* for a Discount.
C9_CouponSetOnce ==
    /\ [][\A d \in DiscountIds :
            Truthy(discounts[d].stripe_coupon_id) =>
                discounts'[d].stripe_coupon_id = discounts[d].stripe_coupon_id]_vars
    /\ [](\A d \in DiscountIds : Cardinality(CouponsCreated(d)) <= 1)

\* --------------------------------------------------------------------- C10
\* C10: nothing orders the load, the create call and the save of concurrent
\* checkouts: whatever the row holds by then, a checkout's discount.save()
\* leaves its own coupon id on the Discount row and its tax.save() its own
\* tax-rate id on the Tax row, so of two checkouts that both found the id
\* unset and both created a remote object, the later save's id is the one
\* kept.  (That such checkouts exist is C10_Witness.)
C10_LastSaveWins ==
    [][\A r \in ReqIds :
          /\ (req[r].pc = "save_discount" /\ req'[r].pc # "save_discount") =>
                /\ discounts'[req[r].discount.id].stripe_coupon_id
                      = req[r].discount.stripe_coupon_id
                /\ \E i \in CallsOf(r, "Coupon.create") :
                      req[r].discount.stripe_coupon_id = req[r].calls[i].id
          /\ (req[r].pc = "save_tax" /\ req'[r].pc # "save_tax") =>
                /\ taxes'[req[r].tax.id].stripe_tax_rate_id = req[r].tax.stripe_tax_rate_id
                /\ \E i \in CallsOf(r, "TaxRate.create") :
                      req[r].tax.stripe_tax_rate_id = req[r].calls[i].id]_vars

\* Two checkouts of different orders that share a Discount and a Tax both
\* found the coupon id unset and both created a coupon, both found the
\* tax-rate id unset and both created a tax rate; each row holds the id of one
\* save only.
C10_Witness ==
    \E r, q \in ReqIds :
        /\ req[r].order = 1 /\ req[q].order = 2
        /\ FoundNoCoupon(r) /\ FoundNoCoupon(q)
        /\ ~Truthy(req[r].tax_rate_read) /\ ~Truthy(req[q].tax_rate_read)
        /\ req[r].saved = <<<<"Discount", 1>>, <<"Tax", 1>>>>
        /\ req[q].saved = <<<<"Discount", 1>>, <<"Tax", 1>>>>
        /\ Cardinality(CouponsCreated(1)) = 2
        /\ Cardinality(TaxRatesCreated(1)) = 2
        /\ req[r].discount.stripe_coupon_id # req[q].discount.stripe_coupon_id
        /\ discounts[1].stripe_coupon_id = req[q].discount.stripe_coupon_id
        /\ taxes[1].stripe_tax_rate_id = req[r].tax.stripe_tax_rate_id

====
